---- MODULE Spec2Model ----
(***************************************************************************)
(* Model of src/main/cpp/tox/core/variant.h: the recursive tagged union    *)
(* variant_storage<Tag, Head, Tail...> and its visitor.                    *)
(*                                                                         *)
(* The type list is Types 1..NumTypes; a type is named by its position in  *)
(* the list.  Level i of the recursion is variant_storage<Tag, T_i, ...,   *)
(* T_N>: its Head is type i and its Tail has NumTypes - i types.  Level    *)
(* NumTypes + 1 is the base case variant_storage<Tag>.                     *)
(*                                                                         *)
(* All levels of the union overlay one tag (head.tag at offset 0) and one  *)
(* payload storage.  Payload objects live in a heap (objs) so that leaks and *)
(* aliasing are observable; a destroyed object that no cell's storage      *)
(* holds any more leaves the heap.                                         *)
(*                                                                         *)
(* assert is modelled with assertions enabled (NDEBUG not defined): a      *)
(* failing assert halts the program (fatal).                               *)
(*                                                                         *)
(* Spec is the program whose payload constructors never throw; FailSpec    *)
(* adds the steps in which a payload's copy or move constructor throws.    *)
(* TagSpec is the compile-time instantiation of a type list.               *)
(***************************************************************************)
EXTENDS Integers, Sequences, FiniteSets, TLC

\* ---- bounds ----
NumTypes == 2
MaxVal == 2
MaxCells == 2
MaxListLen == 260

\* ---- the tag type: unsigned char (variant, line 192) ----
TagBits == 8
TagMod == 2 ^ TagBits

Levels == 1 .. NumTypes
Values == 1 .. MaxVal
CellIds == 1 .. MaxCells
\* one payload storage per cell
ObjIds == 1 .. MaxCells

\* static_cast<Tag>(n): conversion of an integer to the unsigned tag type
ToTag(n) == n % TagMod

\* static Tag const index = sizeof... (Tail), for a level whose Tail has tailLen types
IndexOf(tailLen) == ToTag(tailLen)

\* static Tag const invalid_index = -1
invalid_index == ToTag(-1)

\* mutant: the static_assert lets the index reach the sentinel
StaticAssertOK_Le(tailLen) == IndexOf(tailLen) = tailLen /\ IndexOf(tailLen) <= invalid_index

\* mutant: the static_assert only checks that the index survives the cast
StaticAssertOK_CastOnly(tailLen) == IndexOf(tailLen) = tailLen

\* the static_assert of a level whose Tail has tailLen types
StaticAssertOK(tailLen) == IndexOf(tailLen) = tailLen /\ IndexOf(tailLen) < invalid_index

\* Head of level i
HeadType(i) == i

\* index of level i of the NumTypes-long list
index(i) == IndexOf(NumTypes - i)

VARIABLES cells, objs, fatal, last, inst

vars == <<cells, objs, fatal, last, inst>>

\* a cell that was never constructed / a fresh payload object
\* broken: a payload construction into the cell's storage has failed and the cell has not
\* been assigned or cleared since
NoCell == [st |-> "unborn", tag |-> 0, obj |-> 0, broken |-> FALSE]
DeadCell == [st |-> "dead", tag |-> 0, obj |-> 0, broken |-> FALSE]
NewCell(t, o) == [st |-> "alive", tag |-> t, obj |-> o, broken |-> FALSE]
\* val 0: a valid but unspecified value
NoObj == [alt |-> 0, val |-> 0, cell |-> 0, live |-> FALSE]
NewObj(T, v, c) == [alt |-> T, val |-> v, cell |-> c, live |-> TRUE]

\* the observation of the last operation; after: the operation it directly followed
NoAfter == [op |-> "none", cell |-> 0, src |-> 0, oldtag |-> 0]
NoLast == [op |-> "none", cell |-> 0, src |-> 0, T |-> 0, v |-> 0, ok |-> TRUE, oldtag |-> 0, oldobj |-> 0,
           broken |-> FALSE, after |-> NoAfter,
           events |-> <<>>, calls |-> <<>>, result |-> 0, outcome |-> "none",
           cmps |-> <<>>, isEmpty |-> FALSE, anomalies |-> {}]

\* the instantiation of the NumTypes-long type list, all levels accepted
InstDone == [n |-> NumTypes, rest |-> 0, verdict |-> "accepted",
             tags |-> [k \in 1 .. NumTypes |-> IndexOf(NumTypes - k)]]

Init ==
  /\ cells = [c \in CellIds |-> NoCell]
  /\ objs = [o \in ObjIds |-> NoObj]
  /\ fatal = "none"
  /\ last = NoLast
  /\ inst = InstDone

Live(o) == o # 0 /\ objs[o].live

\* placement new in the storage of cell c: the heap slot that names the constructed
\* payload, the cell's own number when that slot is free
HasFree(h) == \E k \in ObjIds : h[k] = NoObj
FreeSlot(h, c) ==
  IF c \in ObjIds /\ h[c] = NoObj THEN c
  ELSE CHOOSE k \in ObjIds : h[k] = NoObj /\ \A j \in ObjIds : j < k => h[j] # NoObj

\* end of lifetime: a destroyed payload held by no cell's storage is gone
Collect(h, cs) ==
  [o \in ObjIds |->
     IF /\ ~h[o].live
        /\ \A c \in CellIds : ~(cs[c].st = "alive" /\ cs[c].obj = o)
     THEN NoObj ELSE h[o]]
Alive(c) == cells[c].st = "alive"
Unborn(c) == cells[c].st = "unborn"
\* cells come to exist in the order of their names
NextCell(c) == Unborn(c) /\ \A b \in CellIds : b < c => ~Unborn(b)
\* the caller can start an operation: the program has not aborted and the last
\* operation has returned
Running == fatal = "none" /\ last.op = "none"
\* a mutation of cell c can also directly follow a clear, copy or move that involved c
Chains(c) == last.op \in {"clear", "copy", "move"} /\ last.ok /\ c \in {last.cell, last.src}
CanMutate(c) == fatal = "none" /\ Alive(c) /\ (last.op = "none" \/ Chains(c))
AfterOf(c) ==
  IF Chains(c) THEN [op |-> last.op, cell |-> last.cell, src |-> last.src,
                     oldtag |-> last.oldtag]
  ELSE NoAfter

\* ---- value constructor, lines 73-80; 0 is the base case of line 181 ----
RECURSIVE ValueCtor(_, _)
ValueCtor(T, i) ==
  IF i > NumTypes THEN 0
  ELSE IF HeadType(i) = T THEN i
  ELSE ValueCtor(T, i + 1)

\* mutant: the destructor does not recurse into the tail
Dtor_HeadOnly(tag, i) == IF tag = index(i) THEN i ELSE 0

\* ---- destructor, lines 115-121: the level whose head.value.~HeadType() runs, 0 if none ----
RECURSIVE Dtor(_, _)
Dtor(tag, i) ==
  IF i > NumTypes THEN 0
  ELSE IF tag = index(i) THEN i
  ELSE Dtor(tag, i + 1)

\* mutant: the destructor ends no payload's life
ObjsAfterDtor_NoDestroy(c) == objs

\* the heap after this->~variant_storage () on cell c
ObjsAfterDtor(c) ==
  LET l == Dtor(cells[c].tag, 1)
      o == cells[c].obj
  IN  IF l = 0 \/ o = 0 THEN objs
      ELSE [objs EXCEPT ![o].live = FALSE, ![o].val = 0, ![o].alt = 0]

\* what the storage of cell c holds after this->~variant_storage (): nothing when a
\* payload's life ended there, else what it held
StorageAfterDtor(c) == IF Dtor(cells[c].tag, 1) # 0 THEN 0 ELSE cells[c].obj

\* the destructor calls of this->~variant_storage () on cell c
DtorEvents(c) ==
  LET l == Dtor(cells[c].tag, 1)
  IN  IF l = 0 THEN <<>>
      ELSE <<[k |-> "dtor", obj |-> cells[c].obj, alt |-> HeadType(l)]>>

\* what this->~variant_storage () on cell c does wrong: head.value.~Head () on storage
\* in which nothing was constructed (wild), on a payload that was destroyed before
\* (double), or on a payload of another type (wrong)
DtorBad(c) ==
  LET l == Dtor(cells[c].tag, 1)
      o == cells[c].obj
  IN  IF l = 0 THEN {}
      ELSE IF o = 0 THEN {"wild"}
      ELSE IF ~objs[o].live THEN {"double"}
      ELSE IF objs[o].alt = HeadType(l) THEN {} ELSE {"wrong"}

\* ---- variant_storage (), lines 92-95 ----
DefaultConstruct(c) ==
  /\ Running /\ NextCell(c)
  /\ cells' = [cells EXCEPT ![c] = NewCell(invalid_index, 0)]
  /\ last' = [NoLast EXCEPT !.op = "default", !.cell = c]
  /\ UNCHANGED <<objs, fatal, inst>>

\* ---- explicit variant_storage (T const &value), lines 73-80 ----
\* ok = FALSE: the payload's copy constructor throws and no cell comes to exist
ValueConstruct(c, T, v, ok) ==
  /\ Running /\ NextCell(c)
  /\ ValueCtor(T, 1) # 0
  /\ IF ok
     THEN /\ HasFree(objs)
          /\ LET k == FreeSlot(objs, c)
                 cs == [cells EXCEPT ![c] = NewCell(index(ValueCtor(T, 1)), k)]
             IN  /\ cells' = cs
                 /\ objs' = Collect([objs EXCEPT ![k] = NewObj(T, v, c)], cs)
                 /\ last' = [NoLast EXCEPT !.op = "value", !.cell = c, !.T = T, !.v = v,
                               !.events = <<[k |-> "ctor", obj |-> k, alt |-> T]>>]
     ELSE /\ last' = [NoLast EXCEPT !.op = "value", !.cell = c, !.ok = FALSE]
          /\ UNCHANGED <<cells, objs>>
  /\ UNCHANGED <<fatal, inst>>

\* ---- operator = (T const &value), lines 82-90 ----
\* destroy self, then placement-new variant_storage (value).  head { index, head }
\* writes the tag before it copy-constructs the value; when that constructor throws
\* the store to the tag may or may not have reached memory.
Assign(c, T, v, ok) ==
  /\ CanMutate(c)
  /\ ValueCtor(T, 1) # 0
  /\ IF ok
     THEN /\ HasFree(Collect(ObjsAfterDtor(c), [cells EXCEPT ![c].obj = 0]))
          /\ LET h == Collect(ObjsAfterDtor(c), [cells EXCEPT ![c].obj = 0])
                 k == FreeSlot(h, c)
                 cs == [cells EXCEPT ![c].tag = index(ValueCtor(T, 1)), ![c].obj = k,
                                     ![c].broken = FALSE]
             IN  /\ cells' = cs
                 /\ objs' = Collect([h EXCEPT ![k] = NewObj(T, v, c)], cs)
                 /\ last' = [NoLast EXCEPT !.op = "assign", !.cell = c, !.T = T, !.v = v,
                               !.oldtag = cells[c].tag, !.oldobj = cells[c].obj,
                               !.broken = cells[c].broken, !.after = AfterOf(c),
                               !.anomalies = DtorBad(c),
                               !.events = DtorEvents(c) \o
                                          <<[k |-> "ctor", obj |-> k, alt |-> T]>>]
     ELSE /\ \E t \in {cells[c].tag, index(ValueCtor(T, 1))} :
               LET cs == [cells EXCEPT ![c].tag = t, ![c].broken = TRUE]
               IN  /\ cells' = cs
                   /\ objs' = Collect(ObjsAfterDtor(c), cs)
          /\ last' = [NoLast EXCEPT !.op = "assign", !.cell = c, !.ok = FALSE,
                        !.oldtag = cells[c].tag, !.oldobj = cells[c].obj,
                        !.broken = cells[c].broken, !.after = AfterOf(c),
                        !.anomalies = DtorBad(c),
                        !.events = DtorEvents(c)]
  /\ UNCHANGED <<fatal, inst>>

\* mutant: clear destroys the payload and forgets to reset the tag
Clear_NoReset(c) ==
  /\ CanMutate(c)
  /\ cells' = cells
  /\ objs' = Collect(ObjsAfterDtor(c), cells)
  /\ last' = [NoLast EXCEPT !.op = "clear", !.cell = c,
                !.oldtag = cells[c].tag, !.oldobj = cells[c].obj,
                !.broken = cells[c].broken, !.after = AfterOf(c),
                !.anomalies = DtorBad(c), !.events = DtorEvents(c)]
  /\ UNCHANGED <<fatal, inst>>

\* ---- clear (), lines 128-132 ----
Clear(c) ==
  /\ CanMutate(c)
  /\ LET cs == [cells EXCEPT ![c].tag = invalid_index, ![c].obj = StorageAfterDtor(c),
                             ![c].broken = FALSE]
     IN  /\ cells' = cs
         /\ objs' = Collect(ObjsAfterDtor(c), cs)
  /\ last' = [NoLast EXCEPT !.op = "clear", !.cell = c,
                !.oldtag = cells[c].tag, !.oldobj = cells[c].obj,
                !.broken = cells[c].broken, !.after = AfterOf(c),
                !.anomalies = DtorBad(c), !.events = DtorEvents(c)]
  /\ UNCHANGED <<fatal, inst>>

\* mutant: the lifetime of a cell ends without a destructor call
Destroy_NoDtor(c) ==
  /\ CanMutate(c)
  /\ cells' = [cells EXCEPT ![c] = DeadCell]
  /\ last' = [NoLast EXCEPT !.op = "destroy", !.cell = c,
                !.oldtag = cells[c].tag, !.oldobj = cells[c].obj,
                !.broken = cells[c].broken, !.after = AfterOf(c)]
  /\ UNCHANGED <<objs, fatal, inst>>

\* ---- ~variant_storage () of a cell whose lifetime ends, lines 115-121 ----
Destroy(c) ==
  /\ CanMutate(c)
  /\ LET cs == [cells EXCEPT ![c] = DeadCell]
     IN  /\ cells' = cs
         /\ objs' = Collect(ObjsAfterDtor(c), cs)
  /\ last' = [NoLast EXCEPT !.op = "destroy", !.cell = c,
                !.oldtag = cells[c].tag, !.oldobj = cells[c].obj,
                !.broken = cells[c].broken, !.after = AfterOf(c),
                !.anomalies = DtorBad(c), !.events = DtorEvents(c)]
  /\ UNCHANGED <<fatal, inst>>

\* head.value of cell c read as type HeadType(l): the live payload's value, or 0, an
\* unspecified value, when the storage holds no live payload of that type
PayloadValue(c, l) ==
  LET o == cells[c].obj
  IN  IF Live(o) /\ objs[o].alt = HeadType(l) THEN objs[o].val ELSE 0

\* the values a handler can see in head.value of cell c: an unspecified value can be
\* any value
PayloadRead(c, l) ==
  IF PayloadValue(c, l) # 0 THEN {PayloadValue(c, l)} ELSE Values

\* what the tag byte of a cell holds when no constructor has written it
UninitTags == (0 .. NumTypes) \cup {invalid_index}

\* ---- copy constructor, lines 106-113: the level whose head_type is copied; 0 when the
\* recursion ends in the implicit copy of the empty base union, which copies nothing ----
RECURSIVE CopyCtor(_, _)
CopyCtor(tag, i) ==
  IF i > NumTypes THEN 0
  ELSE IF tag = index(i) THEN i
  ELSE CopyCtor(tag, i + 1)

\* ---- move constructor, lines 97-104 ----
RECURSIVE MoveCtor(_, _)
MoveCtor(tag, i) ==
  IF i > NumTypes THEN 0
  ELSE IF tag = index(i) THEN i
  ELSE MoveCtor(tag, i + 1)

\* new (&head) head_type (rhs.head): the tag the member-wise copy gives the new cell
CopiedTag(s) == cells[s].tag

\* mutant: the copy shares the source's payload
CopySlot_Shared(d, s) == cells[s].obj

\* new (&head) head_type (rhs.head): the storage the payload is constructed in is the
\* new cell's own
CopySlot(d, s) == FreeSlot(objs, d)

\* ---- variant_storage (variant_storage const &rhs), lines 106-113 ----
CopyConstruct(d, s, ok) ==
  /\ Running /\ NextCell(d) /\ Alive(s)
  /\ LET l == CopyCtor(cells[s].tag, 1)
     IN  IF l = 0
         THEN /\ ok
              /\ \E g \in UninitTags :
                   IF g = cells[s].tag
                   THEN /\ cells' = [cells EXCEPT ![d] = NewCell(g, 0)]
                        /\ last' = [NoLast EXCEPT !.op = "copy", !.cell = d, !.src = s,
                                      !.oldtag = g]
                        /\ UNCHANGED fatal
                   ELSE /\ fatal' = "copy_assert"
                        /\ last' = [NoLast EXCEPT !.op = "copy", !.cell = d, !.src = s,
                                      !.oldtag = g, !.outcome = "fatal"]
                        /\ UNCHANGED cells
              /\ UNCHANGED objs
         ELSE /\ IF ok
                 THEN /\ HasFree(objs)
                      /\ LET k == CopySlot(d, s)
                             cs == [cells EXCEPT ![d] = NewCell(CopiedTag(s), k)]
                         IN  /\ cells' = cs
                             /\ objs' = Collect([objs EXCEPT
                                                 ![k] = NewObj(HeadType(l), PayloadValue(s, l), d)],
                                               cs)
                             /\ last' = [NoLast EXCEPT !.op = "copy", !.cell = d, !.src = s,
                                           !.oldobj = cells[s].obj,
                                           !.events = <<[k |-> "ctor", obj |-> k,
                                                         alt |-> HeadType(l)]>>]
                 ELSE /\ last' = [NoLast EXCEPT !.op = "copy", !.cell = d, !.src = s,
                                    !.ok = FALSE]
                      /\ UNCHANGED <<cells, objs>>
              /\ UNCHANGED fatal
  /\ UNCHANGED inst

\* the source payload after head_type (std::move (rhs.head)): still constructed, in a
\* valid but unspecified state (val 0: a read of it can yield any value)
MovedFrom(s) ==
  LET o == cells[s].obj
  IN  IF Live(o) THEN [objs EXCEPT ![o].val = 0] ELSE objs

\* mutant: the move constructor empties the source
MovedTag_Reset(s) == invalid_index

\* the move constructor does not write rhs.head.tag
MovedTag(s) == cells[s].tag

\* new (&head) head_type (std::move (rhs.head)): the storage the payload is constructed
\* in is the new cell's own
MoveSlot(d, s) == FreeSlot(objs, d)

\* ---- variant_storage (variant_storage &&rhs), lines 97-104 ----
MoveConstruct(d, s, ok) ==
  /\ Running /\ NextCell(d) /\ Alive(s)
  /\ LET l == MoveCtor(cells[s].tag, 1)
     IN  IF l = 0
         THEN /\ ok
              /\ \E g \in UninitTags :
                   IF g = cells[s].tag
                   THEN /\ cells' = [cells EXCEPT ![d] = NewCell(g, 0)]
                        /\ last' = [NoLast EXCEPT !.op = "move", !.cell = d, !.src = s,
                                      !.oldtag = g]
                        /\ UNCHANGED fatal
                   ELSE /\ fatal' = "move_assert"
                        /\ last' = [NoLast EXCEPT !.op = "move", !.cell = d, !.src = s,
                                      !.oldtag = g, !.outcome = "fatal"]
                        /\ UNCHANGED cells
              /\ UNCHANGED objs
         ELSE /\ IF ok
                 THEN /\ HasFree(objs)
                      /\ LET k == MoveSlot(d, s)
                             cs == [cells EXCEPT ![d] = NewCell(cells[s].tag, k),
                                                 ![s].tag = MovedTag(s)]
                         IN  /\ cells' = cs
                             /\ objs' = Collect([MovedFrom(s) EXCEPT
                                                 ![k] = NewObj(HeadType(l), PayloadValue(s, l), d)],
                                               cs)
                             /\ last' = [NoLast EXCEPT !.op = "move", !.cell = d, !.src = s,
                                           !.oldobj = cells[s].obj,
                                           !.events = <<[k |-> "ctor", obj |-> k,
                                                         alt |-> HeadType(l)]>>]
                 ELSE /\ last' = [NoLast EXCEPT !.op = "move", !.cell = d, !.src = s,
                                    !.ok = FALSE]
                      /\ UNCHANGED <<cells, objs>>
              /\ UNCHANGED fatal
  /\ UNCHANGED inst

\* mutant: the base case is not fatal, the last alternative is the default
DispatchLevel_Default(tag, i) == IF tag \in 0 .. NumTypes - 1 THEN NumTypes - tag ELSE NumTypes

\* ---- dispatch, lines 167-174 and 185-187: the level whose v (head.value) is called,
\* 0 when the recursion reaches the assert of the base case ----
RECURSIVE DispatchLevel(_, _)
DispatchLevel(tag, i) ==
  IF i > NumTypes THEN 0
  ELSE IF tag = index(i) THEN i
  ELSE DispatchLevel(tag, i + 1)

\* mutant: dispatch compares the tag against the index of every level
DispatchCmps_All(tag, i) == [k \in 1 .. NumTypes - i + 1 |-> index(i + k - 1)]

\* the index values the tag is compared against, in order
RECURSIVE DispatchCmps(_, _)
DispatchCmps(tag, i) ==
  IF i > NumTypes THEN <<>>
  ELSE IF tag = index(i) THEN <<index(i)>>
  ELSE <<index(i)>> \o DispatchCmps(tag, i + 1)

\* mutant: the handlers are stored in the order of the tags, not of the type list
VisitorFun_Reversed(T, p) == NumTypes + 1 - T

\* ---- variant_visitor::operator (), lines 14-33: the position in the handler list of the
\* head_fun_ that the overload for a value of type T calls ----
RECURSIVE VisitorFun(_, _)
VisitorFun(T, p) ==
  IF p > NumTypes THEN 0
  ELSE IF HeadType(p) = T THEN p
  ELSE VisitorFun(T, p + 1)

\* the handlers of a dispatch: the one at position p maps v to Marker(p, v), except the
\* one at position thrower (0: none), which fails
Marker(p, v) == p * (MaxVal + 1) + v

\* the calls a dispatch at level l makes, reading value v
DispatchCalls(l, v) == <<[pos |-> VisitorFun(HeadType(l), 1), arg |-> v]>>

\* mutant: a dispatch empties the cell it visits
Dispatch_Consuming(c, thrower) ==
  /\ Running /\ Alive(c)
  /\ cells' = [cells EXCEPT ![c].tag = invalid_index]
  /\ last' = [NoLast EXCEPT !.op = "dispatch", !.cell = c, !.oldtag = cells[c].tag,
                !.outcome = "returned"]
  /\ UNCHANGED <<objs, fatal, inst>>

\* ---- operator () / visit / dispatch, lines 134-174 ----
Dispatch(c, thrower) ==
  /\ Running /\ Alive(c)
  /\ LET l == DispatchLevel(cells[c].tag, 1)
     IN  IF l = 0
         THEN /\ fatal' = "visit_empty"
              /\ last' = [NoLast EXCEPT !.op = "dispatch", !.cell = c,
                            !.oldtag = cells[c].tag,
                            !.cmps = DispatchCmps(cells[c].tag, 1), !.outcome = "fatal"]
         ELSE /\ \E v \in PayloadRead(c, l) :
                   LET calls == DispatchCalls(l, v)
                       p == calls[Len(calls)].pos
                   IN  last' = [NoLast EXCEPT !.op = "dispatch", !.cell = c,
                                  !.oldtag = cells[c].tag,
                                  !.cmps = DispatchCmps(cells[c].tag, 1),
                                  !.calls = calls,
                                  !.outcome = IF p = thrower THEN "threw" ELSE "returned",
                                  !.result = IF p = thrower THEN 0
                                             ELSE Marker(p, calls[Len(calls)].arg)]
              /\ UNCHANGED fatal
  /\ UNCHANGED <<cells, objs, inst>>

\* mutant: empty tests the tag for zero
Empty_Zero(c) ==
  /\ Running /\ Alive(c)
  /\ last' = [NoLast EXCEPT !.op = "empty", !.cell = c, !.oldtag = cells[c].tag,
                !.isEmpty = (cells[c].tag = 0)]
  /\ UNCHANGED <<cells, objs, fatal, inst>>

\* ---- empty (), lines 123-126 ----
Empty(c) ==
  /\ Running /\ Alive(c)
  /\ last' = [NoLast EXCEPT !.op = "empty", !.cell = c, !.oldtag = cells[c].tag,
                !.isEmpty = (cells[c].tag = invalid_index)]
  /\ UNCHANGED <<cells, objs, fatal, inst>>

\* the operation returns to its caller
Return ==
  /\ fatal = "none" /\ last.op # "none"
  /\ last' = NoLast
  /\ UNCHANGED <<cells, objs, fatal, inst>>

\* the operations of a program whose payload constructors do not throw
Next ==
  \/ Return
  \/ \E c \in CellIds : DefaultConstruct(c)
  \/ \E c \in CellIds, T \in Levels, v \in Values : ValueConstruct(c, T, v, TRUE)
  \/ \E d \in CellIds, s \in CellIds : CopyConstruct(d, s, TRUE)
  \/ \E d \in CellIds, s \in CellIds : MoveConstruct(d, s, TRUE)
  \/ \E c \in CellIds, T \in Levels, v \in Values : Assign(c, T, v, TRUE)
  \/ \E c \in CellIds : Clear(c)
  \/ \E c \in CellIds : Destroy(c)
  \/ \E c \in CellIds, thrower \in 0 .. NumTypes : Dispatch(c, thrower)
  \/ \E c \in CellIds : Empty(c)

Spec == Init /\ [][Next]_vars

\* the same operations when a payload's copy or move constructor can throw
Throws ==
  \/ \E c \in CellIds, T \in Levels, v \in Values : ValueConstruct(c, T, v, FALSE)
  \/ \E d \in CellIds, s \in CellIds : CopyConstruct(d, s, FALSE)
  \/ \E d \in CellIds, s \in CellIds : MoveConstruct(d, s, FALSE)
  \/ \E c \in CellIds, T \in Levels, v \in Values : Assign(c, T, v, FALSE)

FailNext == Next \/ Throws

FailSpec == Init /\ [][FailNext]_vars

\* ---- definition of variant_storage<Tag, T_1, ..., T_n>: the compiler instantiates the
\* levels from the outermost one (Tail of n - 1 types) inwards, lines 52-71, and rejects
\* the list at the first static_assert that failed, lines 60-62 ----
InstantiateLevel ==
  /\ inst.verdict = "pending" /\ inst.rest > 0
  /\ IF StaticAssertOK(inst.rest - 1)
     THEN inst' = [inst EXCEPT !.rest = @ - 1, !.tags = Append(@, IndexOf(inst.rest - 1))]
     ELSE inst' = [inst EXCEPT !.verdict = "rejected"]
  /\ UNCHANGED <<cells, objs, fatal, last>>

\* the base case variant_storage<Tag>, lines 177-188, has no static_assert
InstantiateBase ==
  /\ inst.verdict = "pending" /\ inst.rest = 0
  /\ inst' = [inst EXCEPT !.verdict = "accepted"]
  /\ UNCHANGED <<cells, objs, fatal, last>>

\* a type list of any length up to MaxListLen is handed to variant
TagInit ==
  /\ cells = [c \in CellIds |-> NoCell]
  /\ objs = [o \in ObjIds |-> NoObj]
  /\ fatal = "none"
  /\ last = NoLast
  /\ inst \in {[n |-> k, rest |-> k, verdict |-> "pending", tags |-> <<>>] : k \in 0 .. MaxListLen}

TagNext == InstantiateLevel \/ InstantiateBase

TagSpec == TagInit /\ [][TagNext]_vars

\* ======================== properties ========================

\* the payloads constructed and not destroyed in the storage of cell c
LivePayloads(c) == {o \in ObjIds : objs[o].live /\ objs[o].cell = c}

\* C1: a cell into whose storage no payload construction has failed has at most one
\* constructed payload; its tag is the tag of that payload's alternative (distance of the
\* type from the end of the list) when there is one, and the sentinel when there is none.
C1_OnePayloadTagFaithful ==
  \A c \in CellIds : (Alive(c) /\ ~cells[c].broken) =>
    /\ Cardinality(LivePayloads(c)) <= 1
    /\ \A o \in LivePayloads(c) :
         cells[c].obj = o /\ cells[c].tag = NumTypes - objs[o].alt
    /\ LivePayloads(c) = {} => cells[c].tag = 255

\* an assignment has replaced a payload, and a cell has been cleared to empty
C1_Witness ==
  /\ last.op = "assign" /\ last.ok /\ ~last.broken /\ last.oldobj # 0
  /\ Cardinality(LivePayloads(last.cell)) = 1
  /\ \E c \in CellIds : Alive(c) /\ ~cells[c].broken /\ LivePayloads(c) = {}

\* C2: a dispatch on a cell that holds value v of alternative T calls exactly one handler,
\* the one at T's position in the handler list, once, with v, and returns its result.
C2_RoundTrip ==
  (last.op = "dispatch" /\ Live(cells[last.cell].obj) /\ objs[cells[last.cell].obj].val # 0) =>
    LET o == cells[last.cell].obj
    IN  /\ last.calls = <<[pos |-> objs[o].alt, arg |-> objs[o].val]>>
        /\ last.outcome \in {"returned", "threw"}
        /\ last.outcome = "returned" =>
             last.result = objs[o].alt * (MaxVal + 1) + objs[o].val

\* a cell constructed from the value MaxVal of the first type was dispatched and returned
C2_Witness ==
  /\ last.op = "dispatch" /\ last.outcome = "returned"
  /\ Live(cells[last.cell].obj)
  /\ objs[cells[last.cell].obj].alt = 1 /\ objs[cells[last.cell].obj].val = MaxVal

\* C3: assigning b1 of alternative B to a cell that holds a1 of alternative A runs A's
\* destructor on a1 once and before b1 is constructed; afterwards the tag is B's tag and
\* a dispatch calls only B's handler, with b1.
C3_AssignReplaces ==
  (last.op = "assign" /\ last.ok /\ ~last.broken /\ last.oldtag # 255) =>
    LET c == last.cell
        n == cells[c].obj
    IN  /\ Len(last.events) = 2
        /\ last.events[1] = [k |-> "dtor", obj |-> last.oldobj, alt |-> NumTypes - last.oldtag]
        /\ last.events[2] = [k |-> "ctor", obj |-> n, alt |-> last.T]
        /\ last.anomalies = {}
        /\ LivePayloads(c) = {n}
        /\ objs[n].alt = last.T /\ objs[n].val = last.v
        /\ cells[c].tag = NumTypes - last.T
        /\ DispatchCalls(DispatchLevel(cells[c].tag, 1), objs[n].val)
             = <<[pos |-> last.T, arg |-> last.v]>>

\* a value of the last type was assigned to a cell that held a value of the first type
C3_Witness ==
  /\ last.op = "assign" /\ last.ok /\ ~last.broken
  /\ last.oldtag = NumTypes - 1 /\ last.T = NumTypes
  /\ Len(last.events) = 2

\* C4: a dispatch on an empty cell calls no handler, returns no result and ends in the
\* failed assertion of the base case.
C4_EmptyDispatchFatal ==
  (last.op = "dispatch" /\ last.oldtag = 255) =>
    /\ last.calls = <<>>
    /\ last.result = 0
    /\ last.outcome = "fatal"
    /\ fatal = "visit_empty"

\* an empty cell was dispatched
C4_Witness ==
  /\ last.op = "dispatch" /\ cells[last.cell].tag = 255 /\ fatal = "visit_empty"

\* C5 (state part): clear leaves the tag at the sentinel and no payload; on a cell that
\* held a payload it runs that payload's destructor once, on an empty cell it runs none;
\* a clear that directly follows a clear of the same cell finds the cell empty.
C5_ClearState ==
  last.op = "clear" =>
    /\ cells[last.cell].tag = 255
    /\ last.oldtag = 255 => last.events = <<>>
    /\ (last.after.op = "clear" /\ last.after.cell = last.cell) =>
         last.oldtag = 255 /\ last.events = <<>>
    /\ (last.oldtag # 255 /\ ~last.broken) =>
         /\ last.events = <<[k |-> "dtor", obj |-> last.oldobj, alt |-> NumTypes - last.oldtag]>>
         /\ last.anomalies = {}
         /\ LivePayloads(last.cell) = {}

\* C5 (step part): clear on an empty cell changes no cell and no payload
C5_ClearStep ==
  \A c \in CellIds :
    (Clear(c) /\ cells[c].tag = 255 /\ ~cells[c].broken) =>
       cells' = cells /\ objs' = objs /\ last'.events = <<>> /\ last'.anomalies = {}

\* C5: clear is idempotent: it destroys the live payload once and empties the cell, and a
\* clear of an empty cell (so also a second clear in a row) runs no destructor and leaves
\* the cell as it was.
C5_ClearIdempotent == []C5_ClearState /\ [][C5_ClearStep]_vars

\* a cell that held a payload was cleared twice in a row
C5_Witness ==
  /\ last.op = "clear" /\ last.after.op = "clear" /\ last.after.cell = last.cell
  /\ last.after.oldtag # 255 /\ last.oldtag = 255
  /\ cells[last.cell].tag = 255

\* C6 (state part): after a move from a source that holds a payload of alternative T, the
\* new cell and the source both have T's tag, and each has its own constructed payload of
\* alternative T.
C6_MoveState ==
  (last.op = "move" /\ last.ok /\ last.events # <<>> /\ ~cells[last.src].broken) =>
    LET d == last.cell
        s == last.src
    IN  /\ Alive(d) /\ Alive(s)
        /\ Live(cells[d].obj) /\ Live(cells[s].obj)
        /\ cells[d].obj # cells[s].obj
        /\ objs[cells[d].obj].alt = objs[cells[s].obj].alt
        /\ cells[d].tag = NumTypes - objs[cells[d].obj].alt
        /\ cells[s].tag = cells[d].tag
        /\ LivePayloads(d) = {cells[d].obj} /\ LivePayloads(s) = {cells[s].obj}

\* C6 (step part): destroying a cell that holds a payload (moved-from or not) runs the
\* destructor of that payload's alternative on that payload, once, and touches no other
\* payload.
C6_DestroyStep ==
  \A c \in CellIds :
    (Destroy(c) /\ ~cells[c].broken /\ cells[c].tag # 255) =>
       LET o == cells[c].obj
       IN  /\ o # 0
           /\ last'.events = <<[k |-> "dtor", obj |-> o, alt |-> objs[o].alt]>>
           /\ last'.anomalies = {}
           /\ \A x \in ObjIds \ {o} : objs'[x] = objs[x]

\* C6: a move leaves the source destructible: source and new cell keep T's tag and own
\* payloads, and destroying either runs T's destructor once on its own payload only.
C6_MoveLeavesSourceDestructible == []C6_MoveState /\ [][C6_DestroyStep]_vars

\* the source of a move was destroyed directly after the move, the new cell still holds
\* its payload
C6_Witness ==
  /\ last.op = "destroy" /\ last.after.op = "move" /\ last.after.src = last.cell
  /\ Len(last.events) = 1 /\ last.anomalies = {}
  /\ Alive(last.after.cell) /\ Live(cells[last.after.cell].obj)
  /\ objs[cells[last.after.cell].obj].val # 0

\* C7 (state part): after a copy from a source that holds value v of alternative T, the
\* new cell has T's tag and its own payload of alternative T with value v.
C7_CopyState ==
  (last.op = "copy" /\ last.ok /\ last.events # <<>> /\ ~cells[last.src].broken) =>
    LET d == last.cell
        s == last.src
    IN  /\ Alive(d) /\ Alive(s)
        /\ Live(cells[d].obj) /\ Live(cells[s].obj)
        /\ cells[d].obj # cells[s].obj
        /\ objs[cells[d].obj].alt = objs[cells[s].obj].alt
        /\ objs[cells[d].obj].val = objs[cells[s].obj].val
        /\ cells[d].tag = NumTypes - objs[cells[s].obj].alt
        /\ cells[s].tag = cells[d].tag

\* cell x and what its storage holds are the same before and after the step
SameCell(x) ==
  /\ cells'[x] = cells[x]
  /\ cells[x].obj # 0 => objs'[cells[x].obj] = objs[cells[x].obj]

\* C7 (step part): a copy leaves its source unchanged, and an assignment, clear or
\* destruction of one cell leaves every other cell's tag and payload unchanged.
C7_Frame ==
  /\ \A d \in CellIds, s \in CellIds, ok \in BOOLEAN :
       CopyConstruct(d, s, ok) => SameCell(s)
  /\ \A c \in CellIds :
       ((\E T \in Levels, v \in Values, ok \in BOOLEAN : Assign(c, T, v, ok))
          \/ Clear(c) \/ Destroy(c)) =>
         \A x \in CellIds \ {c} : SameCell(x)

\* C7: copy independence: the copy has its own payload equal to the source's, and
\* mutations of the copy or of the source do not reach the other.
C7_CopyIndependence == []C7_CopyState /\ [][C7_Frame]_vars

\* directly after a copy the new cell was assigned a value of another alternative, and
\* the source still holds its payload
C7_Witness ==
  /\ last.op = "assign" /\ last.ok /\ last.after.op = "copy" /\ last.after.cell = last.cell
  /\ Alive(last.after.src) /\ Live(cells[last.after.src].obj)
  /\ objs[cells[last.after.src].obj].val # 0
  /\ cells[last.after.src].tag = last.oldtag
  /\ cells[last.cell].tag # last.oldtag

\* C8: a copy or move from an empty source does not abort and yields an empty cell: the
\* new cell exists, its tag is the sentinel, and no payload was constructed.
C8_CopyOfEmptyYieldsEmpty ==
  (last.op \in {"copy", "move"} /\ last.ok /\ cells[last.src].tag = 255) =>
    /\ fatal = "none"
    /\ Alive(last.cell)
    /\ cells[last.cell].tag = 255
    /\ last.events = <<>>

\* C9: in an accepted list of n types the k-th type, at distance n - k from the end, has
\* tag n - k; the tags are exactly 0 .. n - 1, pairwise distinct, and none is the sentinel.
C9_TagsByPosition ==
  inst.verdict = "accepted" =>
    /\ Len(inst.tags) = inst.n
    /\ \A k \in 1 .. inst.n : inst.tags[k] = inst.n - k /\ inst.tags[k] # 255
    /\ {inst.tags[k] : k \in 1 .. inst.n} = 0 .. inst.n - 1
    /\ \A j \in 1 .. inst.n, k \in 1 .. inst.n : j # k => inst.tags[j] # inst.tags[k]

\* the longest list that fits the tag was accepted
C9_Witness ==
  inst.verdict = "accepted" /\ inst.n = 255 /\ Len(inst.tags) = 255

\* C10: with the 8-bit tag the sentinel is 255 (-1 modulo 2^8); a list is accepted only
\* if its length is at most 255 and rejected only if its length is at least 256, and then
\* at its outermost level, before any tag was given out (every list gets one of the two
\* verdicts, so a list is accepted if and only if its length is at most 255).
C10_TagWidth ==
  /\ invalid_index = 255 /\ invalid_index = (-1) % (2 ^ 8)
  /\ inst.verdict = "accepted" => inst.n <= 255
  /\ inst.verdict = "rejected" => inst.n >= 256 /\ inst.rest = inst.n /\ inst.tags = <<>>
  /\ (inst.verdict = "pending" /\ inst.n >= 256) => inst.rest = inst.n /\ inst.tags = <<>>

\* the list of 257 types, whose first tag wraps to 0, was rejected
C10_Witness ==
  inst.verdict = "rejected" /\ inst.n = 257 /\ IndexOf(inst.n - 1) = 0

\* C11: empty () returns true exactly when the tag is the sentinel: the tag is the
\* sentinel after a default construction and after a clear, and is the tag of the value's
\* alternative, never the sentinel, after a value construction or an assignment, the last
\* alternative (tag 0) included.
C11_EmptyIffSentinel ==
  /\ last.op = "empty" =>
       /\ last.isEmpty = (cells[last.cell].tag = 255)
       /\ ~cells[last.cell].broken => (last.isEmpty = (LivePayloads(last.cell) = {}))
  /\ last.op \in {"default", "clear"} => cells[last.cell].tag = 255
  /\ (last.op \in {"value", "assign"} /\ last.ok) =>
       cells[last.cell].tag = NumTypes - last.T /\ cells[last.cell].tag # 255

\* empty () was called on a cell that holds a value of the last alternative and returned
\* false
C11_Witness ==
  /\ last.op = "empty" /\ ~last.isEmpty
  /\ cells[last.cell].tag = 0
  /\ Live(cells[last.cell].obj) /\ objs[cells[last.cell].obj].alt = NumTypes

\* C12: when the construction of the new payload fails in an assignment to a cell that
\* holds a1, a1's destructor has run exactly once, no payload was constructed, the cell
\* has no live payload, and a1 is not alive again.
C12_FailedAssignDestroysOld ==
  (last.op = "assign" /\ ~last.ok /\ ~last.broken /\ last.oldtag # 255) =>
    /\ last.events = <<[k |-> "dtor", obj |-> last.oldobj, alt |-> NumTypes - last.oldtag]>>
    /\ last.anomalies = {}
    /\ LivePayloads(last.cell) = {}
    /\ ~Live(last.oldobj)
    /\ ~Live(cells[last.cell].obj)

\* an assignment to a cell that held a payload of the first type failed
C12_Witness ==
  /\ last.op = "assign" /\ ~last.ok /\ ~last.broken
  /\ last.oldtag = NumTypes - 1 /\ last.oldobj # 0
  /\ Len(last.events) = 1

\* C13: after a failed assignment to a cell that held a payload the cell is empty (its
\* tag is the sentinel), and a clear, assignment or destruction of a cell in which an
\* assignment has failed runs no destructor on an already destroyed payload or on storage
\* that holds none.
C13_FailedAssignLeavesEmpty ==
  /\ (last.op = "assign" /\ ~last.ok /\ ~last.broken /\ last.oldtag # 255) =>
       cells[last.cell].tag = 255
  /\ (last.op \in {"clear", "assign", "destroy"} /\ last.broken) =>
       last.anomalies = {}

\* C14: a dispatch on a cell with tag t compares the tag against N-1, N-2, ..., t in that
\* order, calls one handler at the first match and compares no further; on an empty cell
\* it compares against all N tags, calls no handler and is fatal; it never makes more
\* than N comparisons.
C14_DispatchOrder ==
  last.op = "dispatch" =>
    /\ Len(last.cmps) <= NumTypes
    /\ last.oldtag \in 0 .. NumTypes - 1 =>
         /\ last.cmps = [k \in 1 .. NumTypes - last.oldtag |-> NumTypes - k]
         /\ Len(last.calls) = 1
         /\ last.outcome \in {"returned", "threw"}
    /\ last.oldtag = 255 =>
         /\ last.cmps = [k \in 1 .. NumTypes |-> NumTypes - k]
         /\ last.calls = <<>>
         /\ last.outcome = "fatal"

\* a dispatch on a cell that holds a value of the first type stopped after one comparison
C14_Witness ==
  /\ last.op = "dispatch" /\ last.oldtag = NumTypes - 1
  /\ last.cmps = <<NumTypes - 1>> /\ last.outcome = "returned"

\* the payloads a sequence of events destroys / constructs
Destroyed(ev) == {ev[k].obj : k \in {j \in 1 .. Len(ev) : ev[j].k = "dtor"}}
Constructed(ev) == {ev[k].obj : k \in {j \in 1 .. Len(ev) : ev[j].k = "ctor"}}

\* C15 (state part): no destructor has run on a destroyed payload, on a payload of
\* another alternative or on storage that holds none; every constructed payload is held
\* by a cell that still exists (no leak), so none is left once every cell is destroyed.
C15_NoLeakNoDouble ==
  /\ last.anomalies = {}
  /\ \A o \in ObjIds : objs[o].live =>
       /\ objs[o].cell \in CellIds /\ Alive(objs[o].cell)
       /\ cells[objs[o].cell].obj = o
  /\ (\A c \in CellIds : ~Alive(c)) => (\A o \in ObjIds : ~objs[o].live)

\* C15 (step part): in every operation each destructor call is on a payload that was
\* alive, with the destructor of its alternative, no payload is destroyed twice, and the
\* payloads whose life ends in the step are exactly the ones a destructor was called on.
C15_DestroyedOnce ==
  last'.op # "none" =>
    LET ev == last'.events
        dt == {j \in 1 .. Len(ev) : ev[j].k = "dtor"}
    IN  /\ \A j \in dt : Live(ev[j].obj) /\ objs[ev[j].obj].alt = ev[j].alt
        /\ \A i \in dt, j \in dt : ev[i].obj = ev[j].obj => i = j
        /\ Destroyed(ev) =
             {o \in ObjIds : objs[o].live /\ (~objs'[o].live \/ o \in Constructed(ev))}

\* C15: over the runs in which every payload construction succeeds, every payload is
\* destroyed exactly once, by the destructor of its own alternative, and no payload
\* outlives its cell.
C15_ExactlyOnceDestruction == []C15_NoLeakNoDouble /\ [][C15_DestroyedOnce]_vars

\* every cell was destroyed, the last one a cell that held a payload
C15_Witness ==
  /\ \A c \in CellIds : cells[c].st = "dead"
  /\ last.op = "destroy" /\ Len(last.events) = 1 /\ last.oldtag # 255
  /\ \A o \in ObjIds : ~objs[o].live

\* C16 (step part): a dispatch and empty () change no cell's tag and no payload and
\* construct and destroy nothing, whether the handler returns or fails; a dispatch on a
\* cell that is not empty does not end the program.
C16_ReadOnlyStep ==
  \A c \in CellIds :
    ((\E thrower \in 0 .. NumTypes : Dispatch(c, thrower)) \/ Empty(c)) =>
       /\ cells' = cells /\ objs' = objs
       /\ last'.events = <<>> /\ last'.anomalies = {}
       /\ cells[c].tag # 255 => fatal' = "none"

\* C16 (state part): a handler's failure is the outcome the caller sees, with no result;
\* after a dispatch that returned or failed the cell still selects the same handler with
\* the same argument, so a second dispatch has the same outcome.
C16_DispatchAgain ==
  (last.op = "dispatch" /\ last.outcome \in {"returned", "threw"}) =>
    LET l == DispatchLevel(cells[last.cell].tag, 1)
    IN  /\ fatal = "none" /\ Alive(last.cell)
        /\ cells[last.cell].tag = last.oldtag
        /\ l # 0 /\ Len(last.calls) = 1
        /\ last.calls[1].arg \in PayloadRead(last.cell, l)
        /\ DispatchCalls(l, last.calls[1].arg) = last.calls
        /\ last.outcome = "threw" => last.result = 0

\* C16: dispatch and empty () are read-only.
C16_DispatchEmptyReadOnly == []C16_DispatchAgain /\ [][C16_ReadOnlyStep]_vars

\* the handler of a dispatch failed on a cell that holds a payload, which is still there
C16_Witness ==
  /\ last.op = "dispatch" /\ last.outcome = "threw"
  /\ Live(cells[last.cell].obj) /\ objs[cells[last.cell].obj].val = MaxVal
  /\ last.calls = <<[pos |-> objs[cells[last.cell].obj].alt, arg |-> MaxVal]>>

====
